---- MODULE Spec2Model ----
(***************************************************************************)
(* Model of save_ipv6_channels.py: parse -> filter -> deduplicate ->       *)
(* serialize.  A Python str is a sequence of one-character strings, a      *)
(* dict (defaultdict) is a sequence of entries in insertion order with     *)
(* distinct keys, a channel is a record [name, url].                       *)
(***************************************************************************)
EXTENDS Integers, Sequences, FiniteSets, TLC

VARIABLES pc, src, exists, inFile, rest, current_category, channels,
          ipv6_channels, final_channels, pending, outFile, url, verdict

vars == <<pc, src, exists, inFile, rest, current_category, channels,
          ipv6_channels, final_channels, pending, outFile, url, verdict>>

(***************************************************************************)
(* Strings                                                                 *)
(***************************************************************************)
NL == <<"\n">>

Comma == <<",">>

\* the literal ',#genre#' of read_result_file and save_channels_to_file
GenreMarker == <<",", "#", "g", "e", "n", "r", "e", "#">>

\* the characters str.strip() removes
Whitespace == {" ", "\t", "\n", "\r"}

RECURSIVE Concat(_)
\* ''.join(ss)
Concat(ss) == IF ss = <<>> THEN <<>> ELSE Head(ss) \o Concat(Tail(ss))

\* s[i:] with a 0-based i
DropFirst(s, n) == SubSeq(s, n + 1, Len(s))

\* s.startswith(p)
StartsWith(s, p) == Len(s) >= Len(p) /\ SubSeq(s, 1, Len(p)) = p

\* s.endswith(p)
EndsWith(s, p) ==
    Len(s) >= Len(p) /\ SubSeq(s, Len(s) - Len(p) + 1, Len(s)) = p

\* c in s, for a single character c
HasChar(s, c) == \E i \in 1..Len(s) : s[i] = c

RECURSIVE LStrip(_)
LStrip(s) ==
    IF s # <<>> /\ Head(s) \in Whitespace THEN LStrip(Tail(s)) ELSE s

RECURSIVE RStrip(_)
RStrip(s) ==
    IF s # <<>> /\ s[Len(s)] \in Whitespace
    THEN RStrip(SubSeq(s, 1, Len(s) - 1))
    ELSE s

\* s.strip()
Strip(s) == RStrip(LStrip(s))

RECURSIVE Replace(_, _)
\* s.replace(old, ''): every non-overlapping occurrence, left to right
Replace(s, old) ==
    IF s = <<>> THEN <<>>
    ELSE IF StartsWith(s, old) THEN Replace(DropFirst(s, Len(old)), old)
    ELSE <<Head(s)>> \o Replace(Tail(s), old)

\* index of the first occurrence of character c in s (c occurs in s)
FirstIndex(s, c) ==
    CHOOSE i \in 1..Len(s) : s[i] = c /\ \A j \in 1..(i - 1) : s[j] # c

\* index of the last occurrence of character c in s (c occurs in s)
LastIndex(s, c) ==
    CHOOSE i \in 1..Len(s) : s[i] = c /\ \A j \in (i + 1)..Len(s) : s[j] # c

\* a faulty variant: the line is split at its last comma
SplitFirstComma_AtLast(s) ==
    LET i == LastIndex(s, ",")
    IN  <<SubSeq(s, 1, i - 1), SubSeq(s, i + 1, Len(s))>>

\* s.split(',', 1) for a string that holds a comma
SplitFirstComma(s) ==
    LET i == FirstIndex(s, ",")
    IN  <<SubSeq(s, 1, i - 1), SubSeq(s, i + 1, Len(s))>>

RECURSIVE FileLines(_)
\* `for line in f`: the lines of a text, each with its line terminator
FileLines(text) ==
    IF text = <<>> THEN <<>>
    ELSE IF HasChar(text, "\n")
         THEN LET i == FirstIndex(text, "\n")
              IN  <<SubSeq(text, 1, i)>> \o FileLines(DropFirst(text, i))
         ELSE <<text>>

(***************************************************************************)
(* dict / defaultdict(list): a sequence of [category, list] entries        *)
(***************************************************************************)
DictKeys(d) == {d[i].category : i \in 1..Len(d)}

DictGet(d, k) ==
    LET i == CHOOSE j \in 1..Len(d) : d[j].category = k IN d[i].list

\* d[k].append(ch) on a defaultdict(list)
DictAppend(d, k, ch) ==
    IF k \in DictKeys(d)
    THEN [i \in 1..Len(d) |->
            IF d[i].category = k
            THEN [category |-> k, list |-> Append(d[i].list, ch)]
            ELSE d[i]]
    ELSE Append(d, [category |-> k, list |-> <<ch>>])

\* d[k] = v
DictSet(d, k, v) ==
    IF k \in DictKeys(d)
    THEN [i \in 1..Len(d) |->
            IF d[i].category = k THEN [category |-> k, list |-> v] ELSE d[i]]
    ELSE Append(d, [category |-> k, list |-> v])

(***************************************************************************)
(* read_result_file                                                        *)
(***************************************************************************)
\* a faulty variant: a marker line enters its category into the dict at once
ParseLine_EnterAtMarker(st, rawline) ==
    LET line == Strip(rawline) IN
    IF line = <<>> THEN st
    ELSE IF EndsWith(line, GenreMarker)
    THEN LET label == Replace(line, GenreMarker)
         IN  [channels |-> IF label \in DictKeys(st.channels)
                           THEN st.channels
                           ELSE DictSet(st.channels, label, <<>>),
              current_category |-> label]
    ELSE IF HasChar(line, ",")
    THEN LET parts == SplitFirstComma(line)
         IN  [st EXCEPT !.channels =
                DictAppend(st.channels, st.current_category,
                           [name |-> parts[1], url |-> parts[2]])]
    ELSE st

\* one iteration of the loop over the lines; st = [channels, current_category]
ParseLine(st, rawline) ==
    LET line == Strip(rawline) IN
    IF line = <<>> THEN st
    ELSE IF EndsWith(line, GenreMarker)
    THEN [st EXCEPT !.current_category = Replace(line, GenreMarker)]
    ELSE IF HasChar(line, ",")
    THEN LET parts == SplitFirstComma(line)
         IN  [st EXCEPT !.channels =
                DictAppend(st.channels, st.current_category,
                           [name |-> parts[1], url |-> parts[2]])]
    ELSE st

RECURSIVE ParseLines(_, _)
ParseLines(st, lines) ==
    IF lines = <<>> THEN st
    ELSE ParseLines(ParseLine(st, Head(lines)), Tail(lines))

ParseStart == [channels |-> <<>>, current_category |-> <<>>]

\* read_result_file(file_path), the file at file_path existing or not
read_result_file(present, text) ==
    IF ~present THEN <<>>
    ELSE ParseLines(ParseStart, FileLines(text)).channels

(***************************************************************************)
(* is_ipv6_url: re.search over ipv6_patterns                               *)
(***************************************************************************)
HexDigits ==
    {"0", "1", "2", "3", "4", "5", "6", "7", "8", "9",
     "a", "b", "c", "d", "e", "f", "A", "B", "C", "D", "E", "F"}

\* a regular expression is a sequence of items: one literal character, or
\* a character class repeated one or more times
Lit(c) == [kind |-> "lit", chars |-> {c}]

OneOrMore(cs) == [kind |-> "plus", chars |-> cs]

Literal(s) == [i \in 1..Len(s) |-> Lit(s[i])]

\* a faulty variant: the character class of the bracket pattern lacks the colon
ipv6_patterns_NoColon ==
    << <<Lit("[")>> \o <<OneOrMore(HexDigits)>> \o <<Lit("]")>>,
       Literal(<<"2", "4", "0", "9", ":", "8", "0", "8", "7", ":">>),
       Literal(<<"2", "0", "0", "1", ":">>),
       Literal(<<":", ":", "1">>),
       Literal(<<"f", "e", "8", "0", ":">>) >>

\* the list ipv6_patterns, in its order
ipv6_patterns ==
    << <<Lit("[")>> \o <<OneOrMore(HexDigits \cup {":"})>> \o <<Lit("]")>>,
       Literal(<<"2", "4", "0", "9", ":", "8", "0", "8", "7", ":">>),
       Literal(<<"2", "0", "0", "1", ":">>),
       Literal(<<":", ":", "1">>),
       Literal(<<"f", "e", "8", "0", ":">>) >>

RECURSIVE MatchAt(_, _, _, _)
\* whether items k.. of pattern p match the string s from position i on
MatchAt(p, k, s, i) ==
    IF k > Len(p) THEN TRUE
    ELSE IF p[k].kind = "lit"
    THEN i <= Len(s) /\ s[i] \in p[k].chars /\ MatchAt(p, k + 1, s, i + 1)
    ELSE \E n \in 1..(Len(s) - i + 1) :
            /\ \A j \in i..(i + n - 1) : s[j] \in p[k].chars
            /\ MatchAt(p, k + 1, s, i + n)

\* re.search(pattern, s) is not None
re_search(p, s) == \E i \in 1..(Len(s) + 1) : MatchAt(p, 1, s, i)

RECURSIVE AnyPattern(_, _)
\* the loop `for pattern in ipv6_patterns`, returning at the first match
AnyPattern(ps, s) ==
    IF ps = <<>> THEN FALSE
    ELSE IF re_search(Head(ps), s) THEN TRUE
    ELSE AnyPattern(Tail(ps), s)

is_ipv6_url(u) == AnyPattern(ipv6_patterns, u)

(***************************************************************************)
(* filter_ipv6_channels                                                    *)
(***************************************************************************)
RECURSIVE FilterList_KeepAll(_, _, _)
\* a faulty variant: the test of is_ipv6_url is left out
FilterList_KeepAll(acc, category, channel_list) ==
    IF channel_list = <<>> THEN acc
    ELSE FilterList_KeepAll(DictAppend(acc, category, Head(channel_list)),
                            category, Tail(channel_list))

RECURSIVE FilterList(_, _, _)
\* the inner loop over one category's channel_list
FilterList(acc, category, channel_list) ==
    IF channel_list = <<>> THEN acc
    ELSE LET channel == Head(channel_list)
         IN  FilterList(IF is_ipv6_url(channel.url)
                        THEN DictAppend(acc, category, channel)
                        ELSE acc,
                        category, Tail(channel_list))

RECURSIVE FilterItems(_, _)
\* the outer loop over channels.items()
FilterItems(acc, items) ==
    IF items = <<>> THEN acc
    ELSE FilterItems(FilterList(acc, Head(items).category, Head(items).list),
                     Tail(items))

filter_ipv6_channels(chs) == FilterItems(<<>>, chs)

(***************************************************************************)
(* remove_duplicates_keep_best                                             *)
(***************************************************************************)
\* seen_names: a dict name -> channel, a sequence of channels in the order
\* in which their names were inserted
SeenHas(seen, name) == \E i \in 1..Len(seen) : seen[i].name = name

SeenGet(seen, name) ==
    seen[CHOOSE i \in 1..Len(seen) : seen[i].name = name]

\* seen_names[name] = channel: a new key goes last, an old key keeps its place
SeenSet(seen, channel) ==
    IF SeenHas(seen, channel.name)
    THEN [i \in 1..Len(seen) |->
            IF seen[i].name = channel.name THEN channel ELSE seen[i]]
    ELSE Append(seen, channel)

\* a faulty variant: a URL of equal length replaces the kept one too
DedupStep_ReplaceOnTie(seen, channel) ==
    IF ~SeenHas(seen, channel.name) THEN SeenSet(seen, channel)
    ELSE IF Len(channel.url) <= Len(SeenGet(seen, channel.name).url)
         THEN SeenSet(seen, channel)
         ELSE seen

\* the body of the loop over channel_list
DedupStep(seen, channel) ==
    IF ~SeenHas(seen, channel.name) THEN SeenSet(seen, channel)
    ELSE IF Len(channel.url) < Len(SeenGet(seen, channel.name).url)
         THEN SeenSet(seen, channel)
         ELSE seen

RECURSIVE DedupList(_, _)
DedupList(seen, channel_list) ==
    IF channel_list = <<>> THEN seen
    ELSE DedupList(DedupStep(seen, Head(channel_list)), Tail(channel_list))

RECURSIVE DedupItems_SharedList(_, _)
\* a faulty variant: the result list is not started afresh for each category
DedupItems_SharedList(acc, items) ==
    IF items = <<>> THEN acc
    ELSE DedupItems_SharedList(
            DictSet(acc, Head(items).category,
                    (IF acc = <<>> THEN <<>> ELSE acc[Len(acc)].list)
                    \o DedupList(<<>>, Head(items).list)),
            Tail(items))

RECURSIVE DedupItems(_, _)
\* the loop over channels.items(); list(seen_names.values()) is the sequence
DedupItems(acc, items) ==
    IF items = <<>> THEN acc
    ELSE DedupItems(DictSet(acc, Head(items).category,
                            DedupList(<<>>, Head(items).list)),
                    Tail(items))

remove_duplicates_keep_best(chs) == DedupItems(<<>>, chs)

(***************************************************************************)
(* save_channels_to_file                                                   *)
(***************************************************************************)
\* the f.write calls of the inner loop, one per channel
ChannelWrites(channel_list) ==
    [i \in 1..Len(channel_list) |->
        channel_list[i].name \o Comma \o channel_list[i].url \o NL]

\* a faulty variant: first_category is cleared before the empty list is skipped
SaveStep_FlagBeforeSkip(st, item) ==
    IF item.list = <<>> THEN [st EXCEPT !.first_category = FALSE]
    ELSE [first_category |-> FALSE,
          writes |-> st.writes
                     \o (IF ~st.first_category THEN <<NL>> ELSE <<>>)
                     \o <<item.category \o GenreMarker \o NL>>
                     \o ChannelWrites(item.list)]

\* one iteration of the loop over channels.items();
\* st = [first_category, writes]
SaveStep(st, item) ==
    IF item.list = <<>> THEN st
    ELSE [first_category |-> FALSE,
          writes |-> st.writes
                     \o (IF ~st.first_category THEN <<NL>> ELSE <<>>)
                     \o <<item.category \o GenreMarker \o NL>>
                     \o ChannelWrites(item.list)]

RECURSIVE SaveItems(_, _)
SaveItems(st, items) ==
    IF items = <<>> THEN st
    ELSE SaveItems(SaveStep(st, Head(items)), Tail(items))

\* the strings save_channels_to_file hands to f.write, in order
SaveWrites(chs) ==
    SaveItems([first_category |-> TRUE, writes |-> <<>>], chs).writes

\* the content of the file after save_channels_to_file returns
save_channels_to_file(chs) == Concat(SaveWrites(chs))

(***************************************************************************)
(* main: the run of the script over an input file                          *)
(***************************************************************************)
\* lines of an input file
MaxLines == 5

\* an input line: a category marker or a channel line
MarkerLine(label) == [kind |-> "marker", a |-> label, b |-> <<>>]

ChannelLine(name, u) == [kind |-> "channel", a |-> name, b |-> u]

\* the text of an input line, without its terminator
Render(d) ==
    IF d.kind = "marker" THEN d.a \o GenreMarker ELSE d.a \o Comma \o d.b

\* the text of the file with the lines ds
FileText(ds) == Concat([i \in 1..Len(ds) |-> Render(ds[i]) \o NL])

UrlV6 == <<"[", ":", ":", "1", "]">>

\* a shorter URL the classifier accepts too
UrlV6Short == <<"[", "1", "]">>

UrlV4 == <<"h">>

LinePool ==
    { MarkerLine(<<"A">>), MarkerLine(<<"B">>),
      ChannelLine(<<"x">>, UrlV6), ChannelLine(<<"x">>, UrlV6Short),
      ChannelLine(<<"x">>, UrlV4) }

\* what output/ipv6_channels.txt holds before the run
OldOutput == <<"o", "l", "d", "\n">>

Idle ==
    /\ rest = <<>>
    /\ current_category = <<>>
    /\ url = <<>>
    /\ verdict = FALSE

Init ==
    /\ pc = "start"
    /\ exists \in BOOLEAN
    /\ src \in IF exists THEN [1..MaxLines -> LinePool] ELSE {<<>>}
    /\ inFile = FileText(src)
    /\ channels = <<>>
    /\ ipv6_channels = <<>>
    /\ final_channels = <<>>
    /\ pending = <<>>
    /\ outFile = OldOutput
    /\ Idle

\* main, lines 113-118
MainRead ==
    /\ pc = "start"
    /\ channels' = read_result_file(exists, inFile)
    /\ pc' = IF channels' = <<>> THEN "returned" ELSE "filter"
    /\ UNCHANGED <<src, exists, inFile, rest, current_category,
                   ipv6_channels, final_channels, pending, outFile, url,
                   verdict>>

\* a faulty variant: the early return on an empty filter result is left out
MainFilter_NoReturn ==
    /\ pc = "filter"
    /\ ipv6_channels' = filter_ipv6_channels(channels)
    /\ pc' = "dedup"
    /\ UNCHANGED <<src, exists, inFile, rest, current_category, channels,
                   final_channels, pending, outFile, url, verdict>>

\* main, lines 122-127
MainFilter ==
    /\ pc = "filter"
    /\ ipv6_channels' = filter_ipv6_channels(channels)
    /\ pc' = IF ipv6_channels' = <<>> THEN "returned" ELSE "dedup"
    /\ UNCHANGED <<src, exists, inFile, rest, current_category, channels,
                   final_channels, pending, outFile, url, verdict>>

\* main, lines 131-132
MainDedup ==
    /\ pc = "dedup"
    /\ final_channels' = remove_duplicates_keep_best(ipv6_channels)
    /\ pc' = "save"
    /\ UNCHANGED <<src, exists, inFile, rest, current_category, channels,
                   ipv6_channels, pending, outFile, url, verdict>>

\* a faulty variant: the file is opened for appending
SaveOpen_Append ==
    /\ pc = "save"
    /\ outFile' = outFile
    /\ pending' = SaveWrites(final_channels)
    /\ pc' = "writing"
    /\ UNCHANGED <<src, exists, inFile, rest, current_category, channels,
                   ipv6_channels, final_channels, url, verdict>>

\* open(file_path, 'w'): the file is truncated
SaveOpen ==
    /\ pc = "save"
    /\ outFile' = <<>>
    /\ pending' = SaveWrites(final_channels)
    /\ pc' = "writing"
    /\ UNCHANGED <<src, exists, inFile, rest, current_category, channels,
                   ipv6_channels, final_channels, url, verdict>>

\* the next f.write of save_channels_to_file
SaveWrite ==
    /\ pc = "writing"
    /\ pending # <<>>
    /\ outFile' = outFile \o Head(pending)
    /\ pending' = Tail(pending)
    /\ UNCHANGED <<pc, src, exists, inFile, rest, current_category, channels,
                   ipv6_channels, final_channels, url, verdict>>

\* the end of the with block, and of main
SaveClose ==
    /\ pc = "writing"
    /\ pending = <<>>
    /\ pc' = "done"
    /\ UNCHANGED <<src, exists, inFile, rest, current_category, channels,
                   ipv6_channels, final_channels, pending, outFile, url,
                   verdict>>

\* an OSError raised by open or by a write: nothing in main catches it
IOFail ==
    /\ pc \in {"save", "writing"}
    /\ pc' = "failed"
    /\ UNCHANGED <<src, exists, inFile, rest, current_category, channels,
                   ipv6_channels, final_channels, pending, outFile, url,
                   verdict>>

Next ==
    \/ MainRead
    \/ MainFilter
    \/ MainDedup
    \/ SaveOpen
    \/ SaveWrite
    \/ SaveClose
    \/ IOFail

Spec == Init /\ [][Next]_vars

(***************************************************************************)
(* What the input file says, read off its lines, and what the output file  *)
(* holds, read off its text                                                *)
(***************************************************************************)
\* the category in effect at input line i: the label of the last marker
\* line before it, the empty string when there is none
CatAt(i) ==
    IF \E j \in 1..(i - 1) : src[j].kind = "marker"
    THEN src[CHOOSE j \in 1..(i - 1) :
                /\ src[j].kind = "marker"
                /\ \A k \in (j + 1)..(i - 1) : src[k].kind # "marker"].a
    ELSE <<>>

ChannelRows == {i \in 1..Len(src) : src[i].kind = "channel"}

\* the channel lines of the input the classifier accepts
PassingRows == {i \in ChannelRows : is_ipv6_url(src[i].b)}

SrcCategories == {CatAt(i) : i \in ChannelRows} \cup
                 {src[i].a : i \in {j \in 1..Len(src) : src[j].kind = "marker"}}

Min(S) == CHOOSE m \in S : \A n \in S : m <= n

\* the input lines at which category c appears: its marker lines, and for
\* the implicit empty-string category the channel lines before any marker
Appearances(c) ==
    {i \in 1..Len(src) :
        \/ src[i].kind = "marker" /\ src[i].a = c
        \/ src[i].kind = "channel" /\ c = <<>> /\ CatAt(i) = <<>>
           /\ \A j \in 1..(i - 1) : src[j].kind # "marker"}

\* the channel lines of category c
RowsOf(c) == {i \in ChannelRows : CatAt(i) = c}

\* the lines of the output file, without their terminators
OutLines ==
    LET ls == FileLines(outFile)
    IN  [i \in 1..Len(ls) |->
            IF ls[i] # <<>> /\ ls[i][Len(ls[i])] = "\n"
            THEN SubSeq(ls[i], 1, Len(ls[i]) - 1) ELSE ls[i]]

IsHeader(line) == EndsWith(line, GenreMarker)

\* the rows of the lines ls that are the header line of category c
HeaderRows(ls, c) == {j \in 1..Len(ls) : ls[j] = c \o GenreMarker}

\* the rows of the lines ls that are channel lines
OutChannelRows(ls) == {j \in 1..Len(ls) : ls[j] # <<>> /\ ~IsHeader(ls[j])}

InBlock(ls, j) == \E h \in 1..j : IsHeader(ls[h])

\* the header line that opens the block row j of the lines ls lies in
BlockHeader(ls, j) ==
    ls[CHOOSE h \in 1..j :
            IsHeader(ls[h]) /\ \A k \in (h + 1)..j : ~IsHeader(ls[k])]

NameOfLine(line) == SubSeq(line, 1, FirstIndex(line, ",") - 1)

Written == pc = "done"

(***************************************************************************)
(* C4                                                                      *)
(***************************************************************************)
\* C4 as stated: two categories that both have a header line in the written
\* output stand there in the order in which they first appear in the source
\* file, as marker lines or as the implicit empty-string category.
C4_OrderOfFirstAppearance ==
    Written =>
        LET ls == OutLines IN
        \A c1, c2 \in SrcCategories :
            (/\ HeaderRows(ls, c1) # {} /\ HeaderRows(ls, c2) # {}
             /\ Appearances(c1) # {} /\ Appearances(c2) # {}
             /\ Min(Appearances(c1)) < Min(Appearances(c2)))
            => Min(HeaderRows(ls, c1)) < Min(HeaderRows(ls, c2))

\* C4 amended: two categories that both have a header line in the written
\* output stand there in the order of their first channel lines in the
\* source file; each has exactly one header line.
C4_OrderOfFirstChannelLine ==
    Written =>
        LET ls == OutLines IN
        \A c1, c2 \in SrcCategories :
            (HeaderRows(ls, c1) # {} /\ HeaderRows(ls, c2) # {}) =>
                /\ Cardinality(HeaderRows(ls, c1)) = 1
                /\ RowsOf(c1) # {} /\ RowsOf(c2) # {}
                /\ (Min(RowsOf(c1)) < Min(RowsOf(c2))
                        => Min(HeaderRows(ls, c1)) < Min(HeaderRows(ls, c2)))

\* a written output with two category blocks, the second of which was
\* announced by a marker line before the first one received a channel
C4_Witness ==
    /\ Written
    /\ \E c1, c2 \in SrcCategories :
        /\ HeaderRows(OutLines, c1) # {} /\ HeaderRows(OutLines, c2) # {}
        /\ Min(HeaderRows(OutLines, c1)) < Min(HeaderRows(OutLines, c2))
        /\ Min(Appearances(c2)) < Min(RowsOf(c1))

(***************************************************************************)
(* C5                                                                      *)
(***************************************************************************)
\* C5: in a written output every channel line is a channel of the input, in
\* the same category, that is_ipv6_url accepts; no block holds two channel
\* lines with one name; a category none of whose channels pass has no
\* header; and every name that has a passing channel in a category keeps a
\* line in that category's block.
C5_OutputContent ==
    Written =>
        LET ls == OutLines
            passing == PassingRows
            rows == OutChannelRows(ls)
        IN  /\ \A j \in rows :
                /\ InBlock(ls, j)
                /\ \E i \in passing :
                    /\ ls[j] = src[i].a \o Comma \o src[i].b
                    /\ BlockHeader(ls, j) = CatAt(i) \o GenreMarker
            /\ \A j, k \in rows :
                (/\ j # k
                 /\ BlockHeader(ls, j) = BlockHeader(ls, k)
                 /\ NameOfLine(ls[j]) = NameOfLine(ls[k])) => FALSE
            /\ \A c \in SrcCategories :
                (RowsOf(c) \cap passing = {}) => HeaderRows(ls, c) = {}
            /\ \A i \in passing :
                \E j \in rows :
                    /\ BlockHeader(ls, j) = CatAt(i) \o GenreMarker
                    /\ NameOfLine(ls[j]) = src[i].a

\* a written output for an input in which a category holds a rejected and
\* two accepted channels of one name, and another category only rejected
\* ones
C5_Witness ==
    /\ Written
    /\ \E i, j, k \in ChannelRows :
        /\ i \notin PassingRows
        /\ j \in PassingRows /\ k \in PassingRows /\ j # k
        /\ CatAt(i) = CatAt(j) /\ CatAt(j) = CatAt(k)
    /\ \E c \in SrcCategories : RowsOf(c) # {} /\ RowsOf(c) \cap PassingRows = {}

(***************************************************************************)
(* C6                                                                      *)
(***************************************************************************)
\* the run has begun to save: the output file was or is about to be opened
Opened == pc \in {"writing", "done"} \/ (pc = "failed" /\ outFile # OldOutput)

\* C6: with the input file missing, or no channel line in it, or no channel
\* that passes the predicate, main never opens the output file, leaves it as
\* it was and can only end by returning; and the file is opened or changed
\* only when a parsed channel passes.
C6_EarlyReturn ==
    LET none == (PassingRows = {}) IN
    /\ (~exists \/ none) =>
            /\ pc \in {"start", "filter", "returned"}
            /\ outFile = OldOutput
    /\ pc = "returned" => (none /\ outFile = OldOutput)
    /\ (Opened \/ outFile # OldOutput \/ pc \in {"dedup", "save"})
            => (exists /\ ~none)

\* main has returned early on a file that holds channels, none passing
C6_Witness ==
    /\ pc = "returned"
    /\ exists
    /\ ChannelRows # {}
    /\ PassingRows = {}

(***************************************************************************)
(* C7                                                                      *)
(***************************************************************************)
Ended == pc \in {"returned", "done", "failed"}

IsPrefix(s, t) == Len(s) <= Len(t) /\ SubSeq(t, 1, Len(s)) = s

\* the complete serialization of what the run computed from its input
Complete ==
    save_channels_to_file(
        remove_duplicates_keep_best(
            filter_ipv6_channels(read_result_file(exists, inFile))))

\* C7 as stated: at the end of any run, one with an I/O failure in the write
\* step included, the output file holds its previous content or the complete
\* serialization of the final Catalog.
C7_NoPartialOutput ==
    Ended => (outFile = OldOutput \/ outFile = save_channels_to_file(final_channels))

\* C7 amended: writing starts only after parsing, filtering and
\* deduplication are complete; a run that returns early leaves the previous
\* content, a run that ends without an I/O failure leaves the complete
\* serialization, and a run that an I/O failure ends leaves the previous
\* content or a prefix (empty, partial or whole) of the serialization.
C7_PrefixOnFailure ==
    /\ pc = "returned" => outFile = OldOutput
    /\ (outFile # OldOutput \/ pc \in {"writing", "done"}) =>
            LET parsed == read_result_file(exists, inFile)
                filtered == filter_ipv6_channels(parsed)
                deduplicated == remove_duplicates_keep_best(filtered)
                complete == save_channels_to_file(deduplicated)
            IN  /\ channels = parsed
                /\ ipv6_channels = filtered
                /\ final_channels = deduplicated
                /\ IsPrefix(outFile, complete)
                /\ pc = "done" => outFile = complete

\* a run an I/O failure ended after the header line was written and before
\* the last channel line was
C7_Witness ==
    /\ pc = "failed"
    /\ outFile # <<>>
    /\ outFile # OldOutput
    /\ outFile # Complete

(***************************************************************************)
(* The classifier on its own                                               *)
(***************************************************************************)
\* pieces a URL is put together from
MaxPieces == 4

UrlPieces ==
    { <<"[">>, <<"]">>, <<":">>, <<"1">>, <<"g">>, <<"F">>,
      <<"2", "0", "0", "1">>, <<"f", "e", "8", "0">>,
      <<"2", "4", "0", "9", ":", "8", "0", "8", "7">> }

Urls == {Concat(ps) : ps \in UNION {[1..n -> UrlPieces] : n \in 0..MaxPieces}}

InitClassify ==
    /\ pc = "classify"
    /\ url \in Urls
    /\ verdict = FALSE
    /\ src = <<>>
    /\ exists = FALSE
    /\ inFile = <<>>
    /\ rest = <<>>
    /\ current_category = <<>>
    /\ channels = <<>>
    /\ ipv6_channels = <<>>
    /\ final_channels = <<>>
    /\ pending = <<>>
    /\ outFile = <<>>

\* a call of is_ipv6_url
Classify ==
    /\ pc = "classify"
    /\ verdict' = is_ipv6_url(url)
    /\ pc' = "classified"
    /\ UNCHANGED <<src, exists, inFile, rest, current_category, channels,
                   ipv6_channels, final_channels, pending, outFile, url>>

NextClassify == Classify

SpecClassify == InitClassify /\ [][NextClassify]_vars

\* s holds t as a substring
Contains(s, t) ==
    \E i \in 1..(Len(s) - Len(t) + 1) : SubSeq(s, i, i + Len(t) - 1) = t

\* s holds a '[', then a non-empty run of hex digits and colons, then a ']'
Bracketed(s) ==
    \E i, j \in 1..Len(s) :
        /\ i + 1 < j
        /\ s[i] = "[" /\ s[j] = "]"
        /\ \A k \in (i + 1)..(j - 1) : s[k] \in HexDigits \cup {":"}

LiteralRule(s) ==
    \/ Contains(s, <<"2", "4", "0", "9", ":", "8", "0", "8", "7", ":">>)
    \/ Contains(s, <<"2", "0", "0", "1", ":">>)
    \/ Contains(s, <<":", ":", "1">>)
    \/ Contains(s, <<"f", "e", "8", "0", ":">>)

\* C9: is_ipv6_url returns true exactly for the URLs that hold a bracketed
\* non-empty run of hex digits and colons or one of the four literal
\* substrings, and false for every other string, the empty one included.
C9_FiveRules ==
    pc = "classified" =>
        /\ verdict \in BOOLEAN
        /\ verdict <=> (Bracketed(url) \/ LiteralRule(url))

\* a URL accepted by the bracket rule alone, with a colon between the
\* brackets
C9_Witness ==
    /\ pc = "classified"
    /\ verdict
    /\ ~LiteralRule(url)
    /\ Contains(url, <<":">>)

(***************************************************************************)
(* The deduplicator on its own                                             *)
(***************************************************************************)
\* entries a Catalog is built from
MaxEntries == 3

Channel(n, u) == [name |-> n, url |-> u]

\* one more entry of a Catalog: a category with no, or with one more, channel
Extend(d, e) ==
    IF e.category \in DictKeys(d)
    THEN DictSet(d, e.category, DictGet(d, e.category) \o e.chans)
    ELSE Append(d, [category |-> e.category, list |-> e.chans])

RECURSIVE BuildCatalog(_)
BuildCatalog(es) ==
    IF es = <<>> THEN <<>>
    ELSE Extend(BuildCatalog(SubSeq(es, 1, Len(es) - 1)), es[Len(es)])

CatalogsOf(pool, n) ==
    {BuildCatalog(es) : es \in UNION {[1..k -> pool] : k \in 0..n}}

DedupChannels ==
    { Channel(<<"x">>, <<"a">>), Channel(<<"x">>, <<"b">>),
      Channel(<<"x">>, <<"c", "d">>),
      Channel(<<"y">>, <<"a">>), Channel(<<"y">>, <<"c", "d">>) }

DedupEntries ==
    {[category |-> c, chans |-> <<ch>>] : c \in {<<"A">>, <<"B">>},
                                           ch \in DedupChannels}
    \cup {[category |-> <<"E">>, chans |-> <<>>]}

InitDedup ==
    /\ pc = "dedup"
    /\ channels \in CatalogsOf(DedupEntries, MaxEntries)
    /\ ipv6_channels = channels
    /\ final_channels = <<>>
    /\ src = <<>>
    /\ exists = FALSE
    /\ inFile = <<>>
    /\ pending = <<>>
    /\ outFile = <<>>
    /\ Idle

\* remove_duplicates_keep_best applied to the Catalog
DedupOnce ==
    /\ pc = "dedup"
    /\ final_channels' = remove_duplicates_keep_best(ipv6_channels)
    /\ pc' = "once"
    /\ UNCHANGED <<src, exists, inFile, rest, current_category, channels,
                   ipv6_channels, pending, outFile, url, verdict>>

\* remove_duplicates_keep_best applied to its own result
DedupTwice ==
    /\ pc = "once"
    /\ ipv6_channels' = final_channels
    /\ final_channels' = remove_duplicates_keep_best(final_channels)
    /\ pc' = "twice"
    /\ UNCHANGED <<src, exists, inFile, rest, current_category, channels,
                   pending, outFile, url, verdict>>

NextDedup == DedupOnce \/ DedupTwice

SpecDedup == InitDedup /\ [][NextDedup]_vars

\* the positions of name n in the channel list l
Occurrences(l, n) == {i \in 1..Len(l) : l[i].name = n}

\* the position of the channel to keep for name n: the earliest among the
\* occurrences whose URL is as short as any
KeptAt(l, n) ==
    Min({i \in Occurrences(l, n) :
            \A j \in Occurrences(l, n) : Len(l[i].url) <= Len(l[j].url)})

\* r is the reference deduplication of the channel list l
IsReferenceDedup(l, r) ==
    /\ {r[a].name : a \in 1..Len(r)} = {l[i].name : i \in 1..Len(l)}
    /\ \A a, b \in 1..Len(r) :
        a < b => Min(Occurrences(l, r[a].name)) < Min(Occurrences(l, r[b].name))
    /\ \A a \in 1..Len(r) : r[a] = l[KeptAt(l, r[a].name)]

\* C2: every category of the input is a category of the result, in the same
\* order, holding one channel per distinct name, the names in the order of
\* their first occurrence, each with the earliest of its shortest URLs.
C2_ReferenceDedup ==
    pc = "once" =>
        /\ Len(final_channels) = Len(channels)
        /\ \A i \in 1..Len(channels) :
            /\ final_channels[i].category = channels[i].category
            /\ IsReferenceDedup(channels[i].list, final_channels[i].list)

\* a category where a name comes three times, a later strictly shorter URL
\* replacing the first and a still later URL of that length not replacing it
C2_Witness ==
    /\ pc = "once"
    /\ \E i \in 1..Len(channels) :
        LET l == channels[i].list
        IN  /\ Len(l) = 3
            /\ l[1].name = l[2].name /\ l[2].name = l[3].name
            /\ Len(l[2].url) < Len(l[1].url)
            /\ Len(l[3].url) = Len(l[2].url)
            /\ l[3] # l[2]
            /\ final_channels[i].list = <<l[2]>>

\* C3: applying remove_duplicates_keep_best to its own result returns that
\* result: the same categories, channels and order.
C3_Idempotent == pc = "twice" => final_channels = ipv6_channels

\* the second application has run on a result from which the first one had
\* removed a channel, in a Catalog of two categories
C3_Witness ==
    /\ pc = "twice"
    /\ Len(channels) >= 2
    /\ ipv6_channels # channels

(***************************************************************************)
(* The serializer on its own, and the parser on what it wrote              *)
(***************************************************************************)
SaveLabels ==
    { <<"A">>, <<"B">>, <<>>, <<" ", "A">>, <<"A", "\n", "B">>,
      <<"A">> \o GenreMarker }

SaveNames == { <<"x", ",", "y">>, <<" ", "x">>, <<>> }

SaveUrls ==
    { <<"u", " ">>, <<"u", ",", "v">>, <<>>, <<"u", "\n", "v">>,
      <<"#", "g", "e", "n", "r", "e", "#">>, <<"v">> \o GenreMarker }

\* a plain channel under each label, each name and each URL under a plain
\* label, and a category without channels
SaveEntries ==
    {[category |-> c, chans |-> <<Channel(<<"x">>, <<"u">>)>>] : c \in SaveLabels}
    \cup {[category |-> <<"A">>, chans |-> <<Channel(n, <<"u">>)>>] : n \in SaveNames}
    \cup {[category |-> <<"A">>, chans |-> <<Channel(<<"x">>, u)>>] : u \in SaveUrls}
    \cup {[category |-> <<"E">>, chans |-> <<>>]}

InitSave ==
    /\ pc = "save"
    /\ final_channels \in CatalogsOf(SaveEntries, MaxEntries)
    /\ outFile = OldOutput
    /\ channels = <<>>
    /\ ipv6_channels = <<>>
    /\ src = <<>>
    /\ exists = FALSE
    /\ inFile = <<>>
    /\ pending = <<>>
    /\ Idle

\* save_channels_to_file(final_channels, path), without an I/O failure
SaveAll ==
    /\ pc = "save"
    /\ outFile' = save_channels_to_file(final_channels)
    /\ pc' = "saved"
    /\ UNCHANGED <<src, exists, inFile, rest, current_category, channels,
                   ipv6_channels, final_channels, pending, url, verdict>>

\* read_result_file(path) on the file just written
ReadBack ==
    /\ pc = "saved"
    /\ channels' = read_result_file(TRUE, outFile)
    /\ pc' = "readback"
    /\ UNCHANGED <<src, exists, inFile, rest, current_category,
                   ipv6_channels, final_channels, pending, outFile, url,
                   verdict>>

NextSave == SaveAll \/ ReadBack

SpecSave == InitSave /\ [][NextSave]_vars

HasEmptyCategory(chs) == \E i \in 1..Len(chs) : chs[i].list = <<>>

ChannelsOf(chs) == UNION {{chs[i].list[k] : k \in 1..Len(chs[i].list)} : i \in 1..Len(chs)}

NoNewlineInChannels(chs) ==
    \A ch \in ChannelsOf(chs) : ~HasChar(ch.name, "\n") /\ ~HasChar(ch.url, "\n")

LeadingSpace(s) == s # <<>> /\ s[1] \in Whitespace

TrailingSpace(s) == s # <<>> /\ s[Len(s)] \in Whitespace

\* what the text layout can carry
Representable(chs) ==
    /\ ~HasEmptyCategory(chs)
    /\ NoNewlineInChannels(chs)
    /\ \A i \in 1..Len(chs) :
        /\ ~HasChar(chs[i].category, "\n")
        /\ ~LeadingSpace(chs[i].category)
        /\ ~Contains(chs[i].category, GenreMarker)
    /\ \A ch \in ChannelsOf(chs) :
        /\ ~HasChar(ch.name, ",")
        /\ ~LeadingSpace(ch.name)
        /\ ~TrailingSpace(ch.url)
        /\ ch.url # Tail(GenreMarker)
        /\ ~EndsWith(ch.url, GenreMarker)

\* C1 as stated: a Catalog without empty categories and without newlines in
\* names and URLs is read back, after being saved, as an equal Catalog.
C1_RoundTrip ==
    (pc = "readback" /\ ~HasEmptyCategory(final_channels)
                     /\ NoNewlineInChannels(final_channels))
        => channels = final_channels

\* C1 amended: a Catalog is read back, after being saved, as an equal
\* Catalog when it has no empty category, no newline in a label, name or
\* URL, no label that starts with whitespace or holds ',#genre#', no name
\* that holds a comma or starts with whitespace, and no URL that ends with
\* whitespace, is '#genre#' or ends with ',#genre#'.
C1_RoundTripRepresentable ==
    (pc = "readback" /\ Representable(final_channels))
        => channels = final_channels

\* a representable Catalog of two categories, with a comma in a URL and an
\* empty name, has been saved and read back
C1_Witness ==
    /\ pc = "readback"
    /\ Representable(final_channels)
    /\ Len(final_channels) = 2
    /\ \E ch \in ChannelsOf(final_channels) : HasChar(ch.url, ",")
    /\ \E ch \in ChannelsOf(final_channels) : ch.name = <<>>

NonEmptyItem(item) == item.list # <<>>

\* the block of a category: its header line, then one line per channel
Block(item) ==
    item.category \o GenreMarker \o NL
    \o Concat([k \in 1..Len(item.list) |->
                item.list[k].name \o Comma \o item.list[k].url \o NL])

\* the blocks of the categories that hold channels, in Catalog order, one
\* blank line before each but the first
Layout(chs) ==
    LET emitted == SelectSeq(chs, NonEmptyItem)
    IN  Concat([i \in 1..Len(emitted) |->
                    (IF i = 1 THEN <<>> ELSE NL) \o Block(emitted[i])])

\* C8: the file save_channels_to_file writes is the blocks of the non-empty
\* categories in Catalog order, a single blank line before every block but
\* the first emitted one, nothing for an empty category and nothing after
\* the last channel line.
C8_Layout == pc = "saved" => outFile = Layout(final_channels)

\* a Catalog saved that has an empty category between two that hold
\* channels
C8_Witness ==
    /\ pc = "saved"
    /\ Len(final_channels) = 3
    /\ final_channels[1].list # <<>>
    /\ final_channels[2].list = <<>>
    /\ final_channels[3].list # <<>>

(***************************************************************************)
(* The parser on its own, line by line                                     *)
(***************************************************************************)
\* lines of a file given to the parser
MaxParseLines == 3

ParsePool ==
    { <<"A">> \o GenreMarker,
      <<"a">> \o GenreMarker \o <<"b">> \o GenreMarker,
      <<"a", ",", "b">> \o GenreMarker,
      <<" ", "B">> \o GenreMarker \o <<" ">>,
      GenreMarker,
      <<"x", ",", "u">>,
      <<"x">> \o GenreMarker \o <<"x">>,
      <<"j">>,
      <<>> }

InitParse ==
    /\ pc = "parsing"
    /\ \E ls \in [1..MaxParseLines -> ParsePool] :
        inFile = Concat([i \in 1..MaxParseLines |-> ls[i] \o NL])
    /\ rest = FileLines(inFile)
    /\ current_category = <<>>
    /\ channels = <<>>
    /\ exists = TRUE
    /\ src = <<>>
    /\ ipv6_channels = <<>>
    /\ final_channels = <<>>
    /\ pending = <<>>
    /\ outFile = <<>>
    /\ url = <<>>
    /\ verdict = FALSE

\* one iteration of `for line in f`
ParseNext ==
    /\ pc = "parsing"
    /\ rest # <<>>
    /\ LET st == ParseLine([channels |-> channels,
                            current_category |-> current_category],
                           Head(rest))
       IN  /\ channels' = st.channels
           /\ current_category' = st.current_category
    /\ rest' = Tail(rest)
    /\ UNCHANGED <<pc, src, exists, inFile, ipv6_channels, final_channels,
                   pending, outFile, url, verdict>>

\* the end of the file: read_result_file returns channels
ParseReturn ==
    /\ pc = "parsing"
    /\ rest = <<>>
    /\ pc' = "parsed"
    /\ UNCHANGED <<src, exists, inFile, rest, current_category, channels,
                   ipv6_channels, final_channels, pending, outFile, url,
                   verdict>>

NextParse == ParseNext \/ ParseReturn

SpecParse == InitParse /\ [][NextParse]_vars

\* the line with its one trailing marker removed
WithoutTrailingMarker(line) == SubSeq(line, 1, Len(line) - Len(GenreMarker))

\* C10: a non-blank line that ends, after trimming, with ',#genre#' adds no
\* channel and makes the line without that one trailing marker the current
\* category, whatever the label holds; a channel line is appended to the
\* current category, which stays.
C10_MarkerLine ==
    [][(pc = "parsing" /\ rest # <<>>) =>
        LET line == Strip(Head(rest))
        IN  /\ (line # <<>> /\ EndsWith(line, GenreMarker)) =>
                    /\ channels' = channels
                    /\ current_category' = WithoutTrailingMarker(line)
            /\ (line # <<>> /\ ~EndsWith(line, GenreMarker)
                    /\ HasChar(line, ",")) =>
                    /\ current_category' = current_category
                    /\ current_category \in DictKeys(channels')
                    /\ LET l == DictGet(channels', current_category)
                       IN  l[Len(l)].name \o Comma \o l[Len(l)].url = line
       ]_vars

====
